---- MODULE Spec2Model ----
(***************************************************************************)
(* The "Sync to NGU Server" userscript: a button injected into the gear    *)
(* optimizer page whose click handler walks the React fiber chain, reads   *)
(* the redux state, reshapes optimizer.savedequip and POSTs it.            *)
(*                                                                         *)
(* Two variants are modelled:                                              *)
(*   "observer"  src/unnamed/part_000  (button re-injected on tab change)  *)
(*   "static"    src/tampermonkey.js   (one button, no observer)           *)
(*                                                                         *)
(* JavaScript values are encoded as follows.                               *)
(*   undefined / a throwing accessor : the option <<>>  (Undefined)        *)
(*   a defined value v               : the option <<v>> (Some(v))          *)
(*   an array                        : a sequence                          *)
(*   an object {[k]: v}              : the function k :> v                 *)
(*   a fiber node reference          : an index into host.chain, 0 = null  *)
(***************************************************************************)
EXTENDS Integers, Sequences, FiniteSets, Bags, TLC

VARIABLES
    variant,      \* which of the two scripts is installed
    loaded,       \* the script's start-up code has run
    observing,    \* the MutationObserver is registered on the gear tab link
    container,    \* the host DOM currently has a "button-section" element
    classActive,  \* the gear tab link currently carries the class "active"
    pending,      \* number of queued MutationRecords not yet delivered
    buttons,      \* the buttons created so far, in creation order
    aborted,      \* aborted[c]: the signal of the c-th AbortController fired
    controller,   \* the script's `controller` variable: an index, 0 = undefined
    host,         \* the host page's framework state, read by the click handler
    activations,  \* one record per run of the click handler, in order
    requests,     \* one record per fetch() issued, in order
    console       \* the console.log lines written, as a bag of lines

vars == <<variant, loaded, observing, container, classActive, pending, buttons,
          aborted, controller, host, activations, requests, console>>

lifecycleVars == <<variant, loaded, observing, container, classActive, pending,
                   buttons, aborted, controller>>

----------------------------------------------------------------------------
(* Bounds of the model *)

MaxSize == 3      \* records plus items of a savedequip collection
MaxChain == 3     \* nodes of the fiber child chain
MaxClicks == 2    \* runs of the click listener
MaxButtons == 2   \* buttons created by addSyncButton
MaxPending == 2   \* MutationRecords queued for one callback

----------------------------------------------------------------------------
(* JavaScript values *)

Undefined == <<>>
Some(v) == <<v>>
Null == 0

Threshold == 10000

Names == {"A", "B"}
Values == {-1, 0, 9999, 10000, 10001}
Slots == {"accessory", "head", "boots", "armor", "pants", "weapon"}

EmptyEquip(name) ==
    [name |-> name, accessory |-> <<>>, head |-> <<>>, boots |-> <<>>,
     armor |-> <<>>, pants |-> <<>>, weapon |-> <<>>]

StateOf(savedequip) == [optimizer |-> Some([savedequip |-> Some(savedequip)])]
NoOptimizerState == [optimizer |-> Undefined]
NoSavedequipState == [optimizer |-> Some([savedequip |-> Undefined])]

FiberOk(state) == [getState |-> Some(state)]
FiberThrows == [getState |-> Undefined]

----------------------------------------------------------------------------
(* The click handler, as pure operators *)

\* the concat chain with its first two operands exchanged
SlotConcat_headFirst(x) ==
    x.head \o x.accessory \o x.boots \o x.armor \o x.pants \o x.weapon

\* x.accessory.concat(x.head).concat(x.boots).concat(x.armor).concat(x.pants).concat(x.weapon)
SlotConcat(x) ==
    x.accessory \o x.head \o x.boots \o x.armor \o x.pants \o x.weapon

\* the item filter with an inclusive threshold
ItemFilter_inclusive(v) == v <= Threshold

\* x => x < 10000
ItemFilter(v) == v < Threshold

\* Array.prototype.filter with ItemFilter as its callback
RECURSIVE FilterItems(_)
FilterItems(arr) ==
    IF arr = <<>> THEN <<>>
    ELSE IF ItemFilter(Head(arr))
         THEN <<Head(arr)>> \o FilterItems(Tail(arr))
         ELSE FilterItems(Tail(arr))

\* (x) => { if (x.name !== undefined) { return {[x.name]: ...} } }
MapEquip(x) ==
    IF x.name # Undefined
    THEN Some(x.name[1] :> FilterItems(SlotConcat(x)))
    ELSE Undefined

\* a final filter that keeps the undefined placeholders
KeepDefined_all(m) == TRUE

\* x => x !== undefined
KeepDefined(m) == m # Undefined

\* Array.prototype.filter with KeepDefined as its callback
RECURSIVE FilterDefined(_)
FilterDefined(arr) ==
    IF arr = <<>> THEN <<>>
    ELSE IF KeepDefined(Head(arr))
         THEN <<Head(arr)>> \o FilterDefined(Tail(arr))
         ELSE FilterDefined(Tail(arr))

\* $r.savedequip.map(...).filter(...); a kept entry is Some(mapping), an
\* entry kept although undefined (never by KeepDefined) stays Undefined
Transform(savedequip) ==
    FilterDefined([i \in DOMAIN savedequip |-> MapEquip(savedequip[i])])

\* JSON.stringify on the values Transform produces
RECURSIVE JSONnumbers(_)
JSONnumbers(arr) ==
    IF arr = <<>> THEN ""
    ELSE IF Len(arr) = 1 THEN ToString(Head(arr))
    ELSE ToString(Head(arr)) \o "," \o JSONnumbers(Tail(arr))

JSONentry(e) ==
    IF e = Undefined THEN "null"
    ELSE LET m == e[1]
             k == CHOOSE key \in DOMAIN m : TRUE
         IN "{\"" \o k \o "\":[" \o JSONnumbers(m[k]) \o "]}"

RECURSIVE JSONentries(_)
JSONentries(arr) ==
    IF arr = <<>> THEN ""
    ELSE IF Len(arr) = 1 THEN JSONentry(Head(arr))
    ELSE JSONentry(Head(arr)) \o "," \o JSONentries(Tail(arr))

JSONstringify(arr) == "[" \o JSONentries(arr) \o "]"

\* base = base.child
Child(chain, base) == IF base < Len(chain) THEN base + 1 ELSE Null

\* a walk that collects nothing more after the first failing accessor
TryPush_stopOnThrow(chain, base, acc) ==
    IF chain[base].getState # Undefined /\ Len(acc.appStates) = Len(acc.visited)
    THEN Append(acc.appStates, chain[base].getState[1])
    ELSE acc.appStates

\* try { state = base.pendingProps.store.getState(); appStates.push(state) } catch (e) {}
TryPush(chain, base, acc) ==
    IF chain[base].getState # Undefined
    THEN Append(acc.appStates, chain[base].getState[1])
    ELSE acc.appStates

\* while (base) { ... }
RECURSIVE WhileBase(_, _, _)
WhileBase(chain, base, acc) ==
    IF base = Null THEN acc
    ELSE WhileBase(chain, Child(chain, base),
                   [visited |-> Append(acc.visited, base),
                    appStates |-> TryPush(chain, base, acc)])

\* try { base = reactRoot._reactRootContainer._internalRoot.current } catch (e) { log }
InternalRoot(h) ==
    IF h.root = "throws" THEN [base |-> Null, logged |-> TRUE]
    ELSE [base |-> IF h.chain = <<>> THEN Null ELSE 1, logged |-> FALSE]

\* a handler that sends an empty payload when no state was collected
ClickHandler_lenient(h) ==
    LET r == InternalRoot(h)
        w == WhileBase(h.chain, r.base, [visited |-> <<>>, appStates |-> <<>>])
        ok == \/ w.appStates = <<>>
              \/ /\ w.appStates[1].optimizer # Undefined
                 /\ w.appStates[1].optimizer[1].savedequip # Undefined
        result == IF ok /\ w.appStates # <<>>
                  THEN Transform(w.appStates[1].optimizer[1].savedequip[1])
                  ELSE <<>>
    IN [rootLogged |-> r.logged,
        visited |-> w.visited,
        appStates |-> w.appStates,
        outcome |-> IF ok THEN "fetch" ELSE "TypeError",
        result |-> result,
        body |-> IF ok THEN JSONstringify(result) ELSE ""]

\* the listener body up to the fetch() call
ClickHandler(h) ==
    LET r == InternalRoot(h)
        w == WhileBase(h.chain, r.base, [visited |-> <<>>, appStates |-> <<>>])
        ok == /\ w.appStates # <<>>
              /\ w.appStates[1].optimizer # Undefined
              /\ w.appStates[1].optimizer[1].savedequip # Undefined
        result == IF ok THEN Transform(w.appStates[1].optimizer[1].savedequip[1])
                  ELSE <<>>
    IN [rootLogged |-> r.logged,
        visited |-> w.visited,
        appStates |-> w.appStates,
        outcome |-> IF ok THEN "fetch" ELSE "TypeError",
        result |-> result,
        body |-> IF ok THEN JSONstringify(result) ELSE ""]

----------------------------------------------------------------------------
(* Control lifecycle *)

\* a click listener is registered and has not been removed by its signal
Live(b) == buttons[b].signal = 0 \/ ~aborted[buttons[b].signal]

\* addSyncButton(): a new button and a new AbortController; the variable
\* `controller` is overwritten; appendChild throws when the container is missing
AddSyncButton(s) ==
    LET c == Len(s.aborted) + 1
    IN [buttons |-> Append(s.buttons, [signal |-> c, appended |-> container]),
        aborted |-> Append(s.aborted, FALSE),
        controller |-> c,
        threw |-> ~container]

\* an abort that signals every handle created so far
Abort_all(s) == [s EXCEPT !.aborted = [c \in DOMAIN s.aborted |-> TRUE]]

\* controller.abort()
Abort(s) == [s EXCEPT !.aborted[s.controller] = TRUE]

\* the body of the for loop of the observer callback, for one MutationRecord
OnMutation(s) ==
    IF classActive THEN AddSyncButton(s)
    ELSE IF s.controller # 0 THEN Abort(s)
    ELSE s

\* for (const mutation of mutationsList) { ... }; an exception ends the loop
RECURSIVE ForMutations(_, _)
ForMutations(n, s) ==
    IF n = 0 \/ s.threw THEN s
    ELSE ForMutations(n - 1, OnMutation(s))

Current == [buttons |-> buttons, aborted |-> aborted,
            controller |-> controller, threw |-> FALSE]

\* window 'load': setupSyncButton(); observer.observe is not reached when
\* addSyncButton throws
Load ==
    /\ variant = "observer"
    /\ ~loaded
    /\ LET s == AddSyncButton(Current)
       IN /\ buttons' = s.buttons
          /\ aborted' = s.aborted
          /\ controller' = s.controller
          /\ observing' = ~s.threw
    /\ loaded' = TRUE
    /\ UNCHANGED <<variant, container, classActive, pending, host,
                   activations, requests, console>>

\* the host page writes the class attribute of the gear tab link; a
\* registered observer gets one MutationRecord queued per write
SetClass(active) ==
    /\ pending < MaxPending
    /\ classActive' = active
    /\ pending' = IF observing THEN pending + 1 ELSE pending
    /\ UNCHANGED <<variant, loaded, observing, container, buttons, aborted,
                   controller, host, activations, requests, console>>

\* a callback whose abort also cancels the requests in flight
ObserverCallback_cancelsRequests ==
    /\ observing
    /\ pending > 0
    /\ LET s == ForMutations(pending, Current)
       IN /\ Len(s.buttons) <= MaxButtons
          /\ buttons' = s.buttons
          /\ aborted' = s.aborted
          /\ controller' = s.controller
    /\ pending' = 0
    /\ requests' = IF classActive THEN requests
                   ELSE [i \in DOMAIN requests |->
                           IF requests[i].status = "pending"
                           THEN [requests[i] EXCEPT !.status = "rejected"]
                           ELSE requests[i]]
    /\ UNCHANGED <<variant, loaded, observing, container, classActive, host,
                   activations, console>>

\* the MutationObserver callback, delivered with every queued record;
\* mutation.target.classList is read when the callback runs
ObserverCallback ==
    /\ observing
    /\ pending > 0
    /\ LET s == ForMutations(pending, Current)
       IN /\ Len(s.buttons) <= MaxButtons
          /\ buttons' = s.buttons
          /\ aborted' = s.aborted
          /\ controller' = s.controller
    /\ pending' = 0
    /\ UNCHANGED <<variant, loaded, observing, container, classActive, host,
                   activations, requests, console>>

\* the host page mounts or unmounts the element of class "button-section"
HostContainer ==
    /\ container' = ~container
    /\ UNCHANGED <<variant, loaded, observing, classActive, pending, buttons,
                   aborted, controller, host, activations, requests,
                   console>>

----------------------------------------------------------------------------
(* Activation and transmission *)

\* console.log(msg), attributed to the activation k that caused it
ConsoleLog(msg, k) == console (+) SetToBag({[msg |-> msg, activation |-> k]})

RootMessage == "Could not get internal root information from reactRoot element"
Url == "http://localhost:3000"

\* a user click on button b; the listener runs only while it is registered.
\* Mutation records are delivered in a microtask of the task that wrote the
\* attribute, so no click (and no promise settlement) is handled before them.
Click(b) ==
    /\ loaded
    /\ pending = 0
    /\ Len(activations) < MaxClicks
    /\ buttons[b].appended
    /\ IF Live(b)
       THEN LET act == ClickHandler(host)
                k == Len(activations) + 1
            IN /\ activations' = Append(activations,
                       [host |-> host, rootLogged |-> act.rootLogged,
                        visited |-> act.visited, appStates |-> act.appStates,
                        outcome |-> act.outcome, result |-> act.result])
               /\ console' = IF act.rootLogged
                             THEN ConsoleLog(RootMessage, k)
                             ELSE console
               /\ requests' = IF act.outcome = "fetch"
                              THEN Append(requests,
                                     [activation |-> k, url |-> Url, method |-> "POST",
                                      contentType |-> "application/json",
                                      body |-> act.body, status |-> "pending"])
                              ELSE requests
       ELSE UNCHANGED <<activations, console, requests>>
    /\ UNCHANGED <<lifecycleVars, host>>

\* a completion callback attached with .then instead of .finally
Settle_thenOnly(i, ok) ==
    /\ pending = 0
    /\ requests[i].status = "pending"
    /\ requests' = [requests EXCEPT ![i].status = IF ok THEN "fulfilled" ELSE "rejected"]
    /\ console' = IF ok THEN ConsoleLog("Done", requests[i].activation) ELSE console
    /\ UNCHANGED <<lifecycleVars, host, activations>>

\* the promise of request i settles; .finally(() => console.log("Done"))
Settle(i, ok) ==
    /\ pending = 0
    /\ requests[i].status = "pending"
    /\ requests' = [requests EXCEPT ![i].status = IF ok THEN "fulfilled" ELSE "rejected"]
    /\ console' = ConsoleLog("Done", requests[i].activation)
    /\ UNCHANGED <<lifecycleVars, host, activations>>

----------------------------------------------------------------------------
(* Host page states *)

EquipA == [EmptyEquip(Some("A")) EXCEPT !.weapon = <<1, 10000>>]
EquipNameless == [EmptyEquip(Undefined) EXCEPT !.weapon = <<5>>]
EquipB == [EmptyEquip(Some("B")) EXCEPT !.accessory = <<9999>>, !.head = <<-1>>]

HostFull ==
    [root |-> "ok", chain |-> <<FiberThrows, FiberOk(StateOf(<<EquipNameless, EquipA>>))>>]
HostEmptyChain == [root |-> "ok", chain |-> <<>>]
HostAllFail == [root |-> "ok", chain |-> <<FiberThrows, FiberThrows>>]
HostNoRoot == [root |-> "throws", chain |-> <<>>]

SampleHosts == {HostFull, HostEmptyChain, HostAllFail, HostNoRoot}

\* the host application re-renders with another store state
HostRender(h) ==
    /\ h # host
    /\ host' = h
    /\ UNCHANGED <<lifecycleVars, activations, requests, console>>

----------------------------------------------------------------------------
(* The script in its page *)

InitStatic ==
    /\ variant = "static"
    /\ loaded = TRUE
    /\ observing = FALSE
    /\ buttons = <<[signal |-> 0, appended |-> container]>>
    /\ aborted = <<>>
    /\ controller = 0

InitObserver ==
    /\ variant = "observer"
    /\ loaded = FALSE
    /\ observing = FALSE
    /\ buttons = <<>>
    /\ aborted = <<>>
    /\ controller = 0

Init ==
    /\ container \in BOOLEAN
    /\ classActive \in BOOLEAN
    /\ pending = 0
    /\ InitStatic \/ InitObserver
    /\ host \in SampleHosts
    /\ activations = <<>>
    /\ requests = <<>>
    /\ console = EmptyBag

Next ==
    \/ Load
    \/ \E active \in BOOLEAN : SetClass(active)
    \/ ObserverCallback
    \/ HostContainer
    \/ \E h \in SampleHosts : HostRender(h)
    \/ \E b \in DOMAIN buttons : Click(b)
    \/ \E i \in DOMAIN requests, ok \in BOOLEAN : Settle(i, ok)

Spec == Init /\ [][Next]_vars

----------------------------------------------------------------------------
(* The click handler on bounded inputs *)

OptionalNames == {Undefined} \cup {Some(n) : n \in Names}

\* savedequip collections without items, of up to n records
NamedOnly(n) ==
    UNION {[1..len -> {EmptyEquip(nm) : nm \in OptionalNames}] : len \in 0..n}

\* number of records plus number of items of a savedequip
RECURSIVE SizeOf(_)
SizeOf(e) ==
    IF e = <<>> THEN 0
    ELSE 1 + Len(SlotConcat(Head(e))) + SizeOf(Tail(e))

EquipHost(e) == [root |-> "ok", chain |-> <<FiberOk(StateOf(e))>>]

WalkNodes ==
    {FiberThrows, FiberOk(StateOf(<<EquipA>>)), FiberOk(StateOf(<<EquipB>>)),
     FiberOk(NoOptimizerState), FiberOk(NoSavedequipState)}

Chains == UNION {[1..len -> WalkNodes] : len \in 0..MaxChain}

WalkHosts ==
    {[root |-> "ok", chain |-> c] : c \in Chains}
        \cup {[root |-> "throws", chain |-> <<>>]}

HandlerHosts == {EquipHost(e) : e \in NamedOnly(MaxSize)} \cup WalkHosts

\* the observer variant once the load event was handled with the container present
AfterLoad ==
    /\ variant = "observer"
    /\ loaded = TRUE
    /\ observing = TRUE
    /\ buttons = <<[signal |-> 1, appended |-> TRUE]>>
    /\ aborted = <<FALSE>>
    /\ controller = 1

InitHandler ==
    /\ container = TRUE
    /\ classActive = TRUE
    /\ pending = 0
    /\ InitStatic \/ AfterLoad
    /\ host \in HandlerHosts
    /\ activations = <<>>
    /\ requests = <<>>
    /\ console = EmptyBag

\* the host page's store gets item v appended to slot s of record r of savedequip
HostEquip(r, s, v) ==
    /\ activations = <<>>
    /\ Len(host.chain) = 1
    /\ host.chain[1].getState # Undefined
    /\ host.chain[1].getState[1].optimizer # Undefined
    /\ host.chain[1].getState[1].optimizer[1].savedequip # Undefined
    /\ LET e == host.chain[1].getState[1].optimizer[1].savedequip[1]
       IN /\ r \in DOMAIN e
          /\ SizeOf(e) < MaxSize
          /\ host' = EquipHost([e EXCEPT ![r][s] = Append(@, v)])
    /\ UNCHANGED <<lifecycleVars, activations, requests, console>>

\* the first click on the page
FirstClick(b) == activations = <<>> /\ Click(b)

NextHandler ==
    \/ \E r \in 1..MaxSize, s \in Slots, v \in Values : HostEquip(r, s, v)
    \/ \E b \in DOMAIN buttons : FirstClick(b)

SpecHandler == InitHandler /\ [][NextHandler]_vars

----------------------------------------------------------------------------
(* Properties of the transformation (SpecHandler) *)

\* the savedequip collection an activation that reached the transformation read
InputOf(a) == a.appStates[1].optimizer[1].savedequip[1]

IsNamed(x) == x.name # Undefined

\* how many of the first i records carry a name
NamedUpTo(e, i) == Cardinality({j \in 1..i : IsNamed(e[j])})

Below10000(v) == v < 10000

\* the six slot collections in the documented order, entries >= 10000 removed
ExpectedItems(x) ==
    SelectSeq(x["accessory"] \o x["head"] \o x["boots"] \o x["armor"]
                  \o x["pants"] \o x["weapon"], Below10000)

ElementsOf(seq) == {seq[i] : i \in DOMAIN seq}

Transmitted == {j \in DOMAIN activations : activations[j].outcome = "fetch"}

\* C1: every named record yields a mapping whose only key is its name and
\* whose value is accessory, head, boots, armor, pants, weapon concatenated
\* in that order, with the entries that are not < 10000 removed and the
\* order of the others kept.
ThmC1 ==
    \A j \in Transmitted :
        LET a == activations[j]
            e == InputOf(a)
        IN \A i \in DOMAIN e :
               IsNamed(e[i]) =>
                   LET k == NamedUpTo(e, i)
                   IN /\ k \in DOMAIN a.result
                      /\ a.result[k] = Some(e[i].name[1] :> ExpectedItems(e[i]))

WitC1 ==
    \E j \in Transmitted :
        LET e == InputOf(activations[j])
        IN \E i \in DOMAIN e :
               /\ IsNamed(e[i])
               /\ e[i].accessory = <<>>
               /\ e[i].head # <<>>
               /\ e[i].weapon # <<>>
               /\ Len(ExpectedItems(e[i])) = 2
               /\ activations[j].result[NamedUpTo(e, i)][1][e[i].name[1]]
                      = e[i].head \o e[i].weapon

\* C2: a record without a name contributes no entry, not even a placeholder:
\* the payload has one defined entry per named record, in the order of the
\* named records, and only nameless records give the empty payload "[]".
ThmC2 ==
    \A j \in Transmitted :
        LET a == activations[j]
            e == InputOf(a)
        IN /\ Len(a.result) = NamedUpTo(e, Len(e))
           /\ \A k \in DOMAIN a.result :
                  /\ a.result[k] # Undefined
                  /\ \E i \in DOMAIN e :
                         /\ IsNamed(e[i])
                         /\ NamedUpTo(e, i) = k
                         /\ DOMAIN a.result[k][1] = {e[i].name[1]}
           /\ (\A i \in DOMAIN e : ~IsNamed(e[i])) =>
                  /\ a.result = <<>>
                  /\ \A q \in DOMAIN requests :
                         requests[q].activation = j => requests[q].body = "[]"

WitC2 ==
    \E j \in Transmitted :
        LET a == activations[j]
            e == InputOf(a)
        IN /\ Len(e) = 3
           /\ IsNamed(e[1]) /\ ~IsNamed(e[2]) /\ IsNamed(e[3])
           /\ e[1].name # e[3].name
           /\ Len(a.result) = 2
           /\ DOMAIN a.result[1][1] = {e[1].name[1]}
           /\ DOMAIN a.result[2][1] = {e[3].name[1]}

\* C3: the filter is exclusive at 10000: an entry of a named record's slots
\* is in the output value iff it is < 10000 (10000 and 10001 out; 9999, 0 and
\* -1 in), and savedequip [{name:"A", weapon:[1,10000]}] is sent as [{"A":[1]}].
ThmC3 ==
    \A j \in Transmitted :
        LET a == activations[j]
            e == InputOf(a)
        IN /\ \A i \in DOMAIN e :
                  IsNamed(e[i]) =>
                      LET out == a.result[NamedUpTo(e, i)][1][e[i].name[1]]
                      IN \A s \in Slots : \A v \in ElementsOf(e[i][s]) :
                             (v \in ElementsOf(out)) <=> (v <= 9999)
           /\ e = <<EquipA>> =>
                  \A q \in DOMAIN requests :
                      requests[q].activation = j => requests[q].body = "[{\"A\":[1]}]"

WitC3 ==
    \E j \in Transmitted :
        LET a == activations[j]
            e == InputOf(a)
        IN /\ Len(e) = 1
           /\ IsNamed(e[1])
           /\ e[1].weapon = <<10000, 9999>>
           /\ a.result[1][1][e[1].name[1]] = <<9999>>

----------------------------------------------------------------------------
(* Properties of the state retrieval (SpecHandler) *)

Succeeds(node) == node.getState # Undefined

\* the states of the nodes of a chain whose accessor succeeds, in chain order
RECURSIVE StatesInOrder(_)
StatesInOrder(chain) ==
    IF chain = <<>> THEN <<>>
    ELSE IF Succeeds(chain[Len(chain)])
         THEN Append(StatesInOrder(SubSeq(chain, 1, Len(chain) - 1)),
                     chain[Len(chain)].getState[1])
         ELSE StatesInOrder(SubSeq(chain, 1, Len(chain) - 1))

\* C7: an accessor failure does not stop the walk: every node of the chain is
\* visited exactly once, in order; the collected list is the states of the
\* succeeding nodes in chain order; the state used is that of the first
\* succeeding node.
ThmC7 ==
    \A j \in DOMAIN activations :
        LET a == activations[j]
            chain == a.host.chain
        IN a.host.root = "ok" =>
               /\ a.visited = [n \in 1..Len(chain) |-> n]
               /\ a.appStates = StatesInOrder(chain)
               /\ \A n \in DOMAIN chain :
                      (Succeeds(chain[n]) /\ \A m \in 1..(n - 1) : ~Succeeds(chain[m])) =>
                          /\ chain[n] = FiberOk(StateOf(<<EquipA>>)) =>
                                 /\ a.outcome = "fetch"
                                 /\ a.result = <<Some("A" :> <<1>>)>>
                          /\ chain[n] = FiberOk(StateOf(<<EquipB>>)) =>
                                 /\ a.outcome = "fetch"
                                 /\ a.result = <<Some("B" :> <<9999, -1>>)>>
                          /\ chain[n] = FiberOk(NoOptimizerState) => a.outcome = "TypeError"

WitC7 ==
    \E j \in DOMAIN activations :
        LET a == activations[j]
        IN /\ a.host.root = "ok"
           /\ a.host.chain = <<FiberThrows, FiberOk(StateOf(<<EquipB>>)),
                               FiberOk(StateOf(<<EquipA>>))>>
           /\ a.visited = <<1, 2, 3>>
           /\ Len(a.appStates) = 2
           /\ a.result = <<Some("B" :> <<9999, -1>>)>>

----------------------------------------------------------------------------
(* Properties of activation and transmission (Spec) *)

DoneCount(j) == CopiesIn([msg |-> "Done", activation |-> j], console)
RootMessageCount(j) == CopiesIn([msg |-> RootMessage, activation |-> j], console)
RequestsOf(j) == {q \in DOMAIN requests : requests[q].activation = j}

\* no framework node of host page state h yields a state
NoStateHost(h) ==
    \/ h.root = "throws"
    \/ \A n \in DOMAIN h.chain : ~Succeeds(h.chain[n])

\* C6: an activation in which no node yields a state (root lookup fails,
\* empty chain, or every accessor fails) collects nothing and fails at the
\* optimizer access: no POST and no completion message for it; a failed root
\* lookup is logged once; a click on a page with state is still transmitted.
ThmC6 ==
    \A j \in DOMAIN activations :
        LET a == activations[j]
        IN /\ NoStateHost(a.host) =>
                  /\ a.appStates = <<>>
                  /\ a.outcome = "TypeError"
                  /\ RequestsOf(j) = {}
                  /\ DoneCount(j) = 0
                  /\ RootMessageCount(j) = IF a.host.root = "throws" THEN 1 ELSE 0
           /\ a.host = HostFull =>
                  /\ a.outcome = "fetch"
                  /\ Cardinality(RequestsOf(j)) = 1

WitC6 ==
    /\ Len(activations) = 2
    /\ activations[1].host \in {HostEmptyChain, HostAllFail, HostNoRoot}
    /\ activations[1].outcome = "TypeError"
    /\ activations[2].outcome = "fetch"
    /\ Len(requests) = 1
    /\ requests[1].activation = 2
    /\ requests[1].status # "pending"
    /\ DoneCount(2) = 1
    /\ DoneCount(1) = 0

\* C8: an activation that reaches transmission issues exactly one POST to
\* http://localhost:3000 with the JSON payload; "Done" is logged exactly once
\* per request, once it has settled, on success and on failure alike; nothing
\* is retried, so requests never outnumber the handled clicks.
ThmC8 ==
    /\ \A j \in DOMAIN activations :
           LET a == activations[j]
           IN /\ Cardinality(RequestsOf(j)) = IF a.outcome = "fetch" THEN 1 ELSE 0
              /\ \A q \in RequestsOf(j) :
                     /\ requests[q].method = "POST"
                     /\ requests[q].url = "http://localhost:3000"
                     /\ requests[q].contentType = "application/json"
                     /\ a.host = HostFull => requests[q].body = "[{\"A\":[1]}]"
              /\ RequestsOf(j) = {} => DoneCount(j) = 0
    /\ \A q \in DOMAIN requests :
           /\ requests[q].activation \in DOMAIN activations
           /\ DoneCount(requests[q].activation)
                  = IF requests[q].status \in {"fulfilled", "rejected"} THEN 1 ELSE 0
    /\ Len(requests) <= Len(activations)

WitC8 ==
    /\ Len(requests) = 2
    /\ requests[1].status = "rejected"
    /\ requests[2].status = "fulfilled"
    /\ DoneCount(requests[1].activation) = 1
    /\ DoneCount(requests[2].activation) = 1

InFlight == {q \in DOMAIN requests : requests[q].status = "pending"}

Signalled == \E c \in DOMAIN aborted : ~aborted[c] /\ aborted'[c]

\* C9: requests are not coordinated: every handled click that reaches
\* transmission adds one in-flight request next to those already in flight,
\* any in-flight request may settle whatever the state of the others, and
\* signalling the abort handle leaves every request and its logging untouched.
ThmC9 ==
    [][ /\ Signalled => (requests' = requests /\ console' = console)
        /\ (Len(activations') > Len(activations)
              /\ activations'[Len(activations')].outcome = "fetch") =>
                 /\ Len(requests') = Len(requests) + 1
                 /\ SubSeq(requests', 1, Len(requests)) = requests
                 /\ requests'[Len(requests')].status = "pending"
        /\ \A q \in DOMAIN requests :
               (requests[q].status = "pending" /\ requests'[q].status # "pending") =>
                   /\ \A o \in DOMAIN requests \ {q} : requests'[o] = requests[o]
                   /\ DoneCount(requests[q].activation)' = 1
      ]_vars

WitC9 ==
    /\ variant = "observer"
    /\ controller # 0
    /\ aborted[controller]
    /\ Len(requests) = 2
    /\ requests[1].body = requests[2].body
    /\ requests[1].status = "pending"
    /\ requests[2].status = "rejected"
    /\ DoneCount(requests[2].activation) = 1

----------------------------------------------------------------------------
(* Properties of the control lifecycle (Spec) *)

LiveControls == {b \in DOMAIN buttons : buttons[b].appended /\ Live(b)}

\* C4: in the observer variant at most one injected control has a live click
\* listener: a re-injection cancels the listener of the previous control.
CexC4 == variant = "observer" => Cardinality(LiveControls) <= 1

\* C5: in the observer variant, once the tab was seen losing the active class
\* and until a new control is injected, no click starts a sync.
CexC5 ==
    [][ (variant = "observer" /\ controller # 0 /\ aborted[controller]) =>
            (activations' = activations /\ Len(requests') = Len(requests)) ]_vars

====
